---- MODULE Spec2Model ----
(***************************************************************************)
(* A model of the "watered" plant tracker: the in-memory storage, the      *)
(* plant domain logic, the plant service, the admin configuration handlers *)
(* and the authentication / session layer.                                 *)
(*                                                                         *)
(* Conventions                                                             *)
(*   - a Go pointer is a sequence: <<>> is nil, <<v>> points to v;         *)
(*   - time is counted in ticks, TicksPerHour ticks to the hour; a         *)
(*     time.Time is the tick at which it was taken;                        *)
(*   - MemoryStorage hands out the pointer it stores, so an assignment     *)
(*     through a pointer obtained from storage changes the stored record   *)
(*     at once, whether or not Update... is called afterwards.             *)
(***************************************************************************)
EXTENDS Integers, Sequences, FiniteSets, TLC

VARIABLES
    now,      \* the wall clock (ticks)
    env,      \* the process environment read at start-up
    plant,    \* MemoryStorage.plant  (*models.PlantState)
    config,   \* MemoryStorage.config (*models.AdminConfig)
    users,    \* MemoryStorage.users  (map[string]*models.User)
    cookie,   \* the "watered-session" values held by the browser
    nextState,\* number of state tokens generated so far
    resp,     \* the last call and what it answered
    heap,     \* PlantState objects allocated by concurrent calls, and the
              \* address MemoryStorage.plant holds among them (0: none)
    calls,    \* the position and locals of each concurrent service call
    allowedEmails, \* AuthService.allowedEmails, the static allowlist
    inflight  \* the callback request waiting for the identity provider

vars == <<now, env, plant, config, users, cookie, nextState, resp, heap, calls,
          allowedEmails, inflight>>

(***************************************************************************)
(* Bounds of the model                                                     *)
(***************************************************************************)
MaxTime == 3
TicksPerHour == 2
MaxLogins == 2

(***************************************************************************)
(* Input alphabets                                                         *)
(***************************************************************************)
AdminEmail == "admin@example.com"
TestEmail == "test@example.com"
GuestEmail == "guest@x.com"

DemoAllowedEmails == <<"demo@example.com", "user1@example.com", "user2@example.com", TestEmail>>
DemoAdminEmails == <<AdminEmail>>

Actors == {TestEmail, GuestEmail}
PlantNames == {"", "Fern"}
SettingsTimeouts == {-1, 0, 2, 8760, 8761}
AdminTimeouts == {0, 1, 168, 169}

\* ALLOWED_EMAILS / ADMIN_EMAILS as the trimmed parts of
\* strings.Split(value, ","), empty parts included ("a@x.com," is
\* <<"a@x.com", "">>); <<>> stands for an unset (or empty) variable.
EnvOptions ==
    { [ALLOWED_EMAILS |-> <<>>, ADMIN_EMAILS |-> <<>>,
       GOOGLE_CLIENT_ID |-> "", GOOGLE_CLIENT_SECRET |-> ""],
      [ALLOWED_EMAILS |-> <<TestEmail, "">>, ADMIN_EMAILS |-> <<>>,
       GOOGLE_CLIENT_ID |-> "id", GOOGLE_CLIENT_SECRET |-> "secret"] }

Procs == {"p1", "p2"}
UserEmails == {TestEmail, GuestEmail, AdminEmail}
UserNames == {"Ann"}
RawEmails == {GuestEmail, " Guest@X.com ", TestEmail, "bad"}
MalformedEmails == {"", "guest.x.com", "guest@x"}
AuthCodes == {"", "code"}

Range(s) == { s[i] : i \in 1..Len(s) }

Resp(op, status, err, arg, out) ==
    [op |-> op, status |-> status, err |-> err, arg |-> arg, out |-> out]

(***************************************************************************)
(* Plant domain logic (models.PlantState)                                  *)
(***************************************************************************)

\* time.Since(*p.LastWatered), in ticks
TimeSince(p, t) == t - p.LastWatered[1]

\* GetHealthStatus with the half-timeout comparison made inclusive
GetHealthStatus_HalfInclusive(p, t) ==
    IF p.LastWatered = <<>> THEN "critical"
    ELSE IF 2 * TimeSince(p, t) <= p.TimeoutHours * TicksPerHour THEN "healthy"
    ELSE IF TimeSince(p, t) < p.TimeoutHours * TicksPerHour THEN "needs_water"
    ELSE "critical"

\* hoursSinceWatering < float64(TimeoutHours)*0.5, hoursSinceWatering <
\* float64(TimeoutHours): hours = ticks / TicksPerHour, compared exactly.
GetHealthStatus(p, t) ==
    IF p.LastWatered = <<>> THEN "critical"
    ELSE IF 2 * TimeSince(p, t) < p.TimeoutHours * TicksPerHour THEN "healthy"
    ELSE IF TimeSince(p, t) < p.TimeoutHours * TicksPerHour THEN "needs_water"
    ELSE "critical"

GetTimeSinceWatering(p, t) ==
    IF p.LastWatered = <<>> THEN <<>> ELSE <<TimeSince(p, t)>>

IsOverdue(p, t) ==
    IF p.LastWatered = <<>> THEN TRUE
    ELSE TimeSince(p, t) > p.TimeoutHours * TicksPerHour

GetTimeUntilDue(p, t) ==
    IF p.LastWatered = <<>> THEN <<>>
    ELSE <<(p.LastWatered[1] + p.TimeoutHours * TicksPerHour) - t>>

\* "" is a nil error
Validate(p) ==
    IF p.Name = "" THEN "plant name cannot be empty"
    ELSE IF p.TimeoutHours <= 0 THEN "timeout hours must be positive"
    ELSE IF p.TimeoutHours > 8760 THEN "timeout hours cannot exceed 8760 (1 year)"
    ELSE ""

(***************************************************************************)
(* Plant service (services.PlantService) over MemoryStorage.  A method is  *)
(* an operator giving the stored pointer after the call, the error ("" is  *)
(* nil) and the returned value.                                            *)
(***************************************************************************)
SvcResult(stored, err, out) == [plant |-> stored, err |-> err, out |-> out]

createDefaultPlant(t) ==
    [ID |-> 1, Name |-> "Our Plant", LastWatered |-> <<>>, TimeoutHours |-> 24,
     WateredBy |-> "", CreatedAt |-> t, UpdatedAt |-> t]

\* GetPlant handing out a default plant without storing it
GetPlant_NoPersist ==
    IF plant = <<>>
    THEN SvcResult(plant, "", <<createDefaultPlant(now)>>)
    ELSE SvcResult(plant, "", plant)

GetPlant ==
    IF plant = <<>>
    THEN SvcResult(<<createDefaultPlant(now)>>, "", <<createDefaultPlant(now)>>)
    ELSE SvcResult(plant, "", plant)

\* WaterPlant recording the time but not who watered
WaterPlant_NoActor(wateredBy) ==
    IF wateredBy = ""
    THEN SvcResult(plant, "watered_by field is required", <<>>)
    ELSE LET p == [GetPlant.out[1] EXCEPT !.LastWatered = <<now>>,
                                          !.UpdatedAt = now]
         IN SvcResult(<<p>>, "", <<p>>)

WaterPlant(wateredBy) ==
    IF wateredBy = ""
    THEN SvcResult(plant, "watered_by field is required", <<>>)
    ELSE LET p == [GetPlant.out[1] EXCEPT !.LastWatered = <<now>>,
                                          !.WateredBy = wateredBy,
                                          !.UpdatedAt = now]
         IN SvcResult(<<p>>, "", <<p>>)

\* GetPlantStatus stamping the plant it read
GetPlantStatus_Touch ==
    LET p == GetPlant.out[1]
    IN SvcResult(<<[p EXCEPT !.UpdatedAt = now]>>, "",
                 [Status |-> GetHealthStatus(p, now),
                  HoursSinceWatering |-> GetTimeSinceWatering(p, now),
                  IsOverdue |-> IsOverdue(p, now),
                  TimeUntilDue |-> GetTimeUntilDue(p, now)])

GetPlantStatus ==
    LET p == GetPlant.out[1]
    IN SvcResult(GetPlant.plant, "",
                 [Status |-> GetHealthStatus(p, now),
                  HoursSinceWatering |-> GetTimeSinceWatering(p, now),
                  IsOverdue |-> IsOverdue(p, now),
                  TimeUntilDue |-> GetTimeUntilDue(p, now)])

GetPlantTimer ==
    LET p == GetPlant.out[1]
    IN SvcResult(GetPlant.plant, "",
                 [LastWatered |-> p.LastWatered,
                  TimeSinceWatering |-> GetTimeSinceWatering(p, now),
                  TimeoutHours |-> p.TimeoutHours,
                  NextWateringTime |->
                      IF p.LastWatered = <<>> THEN <<>>
                      ELSE <<p.LastWatered[1] + p.TimeoutHours * TicksPerHour>>,
                  TimeUntilDue |-> GetTimeUntilDue(p, now),
                  IsOverdue |-> IsOverdue(p, now)])

\* The plant pointer comes from storage, so the assignments to Name,
\* TimeoutHours and UpdatedAt reach the stored record before Validate runs
\* and stay there when the method returns an error.
UpdatePlantSettings(name, timeoutHours) ==
    LET p0 == GetPlant.out[1]
        p1 == IF name # "" THEN [p0 EXCEPT !.Name = name] ELSE p0
    IN IF timeoutHours # 0 /\ timeoutHours < 0
       THEN SvcResult(<<p1>>, "timeout hours cannot be negative", <<>>)
       ELSE LET p2 == IF timeoutHours # 0
                      THEN [p1 EXCEPT !.TimeoutHours = timeoutHours] ELSE p1
                p3 == [p2 EXCEPT !.UpdatedAt = now]
            IN IF Validate(p3) # ""
               THEN SvcResult(<<p3>>, "invalid plant settings: " \o Validate(p3), <<>>)
               ELSE SvcResult(<<p3>>, "", <<p3>>)

\* ResetPlant putting a factory-default plant in place of the stored one
ResetPlant_Factory ==
    LET p == createDefaultPlant(now)
    IN SvcResult(<<p>>, "", <<p>>)

ResetPlant ==
    LET p == [GetPlant.out[1] EXCEPT !.LastWatered = <<>>, !.WateredBy = "",
                                     !.UpdatedAt = now]
    IN SvcResult(<<p>>, "", <<p>>)

\* A direct call of a service method
ServiceCall(op, arg, r) ==
    /\ plant' = r.plant
    /\ resp' = Resp(op, 0, r.err, arg, r.out)
    /\ UNCHANGED <<heap, calls, now, env, allowedEmails, inflight, config, users, cookie, nextState>>

GetPlantCall == ServiceCall("get_plant", <<>>, GetPlant)
WaterPlantCall(wateredBy) == ServiceCall("water", wateredBy, WaterPlant(wateredBy))
GetPlantStatusCall == ServiceCall("get_status", <<>>, GetPlantStatus)
GetPlantTimerCall == ServiceCall("get_timer", <<>>, GetPlantTimer)
UpdatePlantSettingsCall(name, timeoutHours) ==
    ServiceCall("update_settings", <<name, timeoutHours>>, UpdatePlantSettings(name, timeoutHours))
ResetPlantCall == ServiceCall("reset", <<>>, ResetPlant)

(***************************************************************************)
(* Admin configuration handlers (handlers.AdminHandler)                    *)
(***************************************************************************)

\* getEmailsFromEnv(envVar, []string{}): the non-empty parts of the
\* variable, the empty fallback when it is unset
getEmailsFromEnv(value) ==
    IF value # <<>> THEN SelectSeq(value, LAMBDA e : e # "") ELSE <<>>

AppendMissing(list, extra) ==
    LET F[i \in 0..Len(extra)] ==
            IF i = 0 THEN list
            ELSE IF extra[i] \in Range(list) THEN F[i - 1]
            ELSE Append(F[i - 1], extra[i])
    IN F[Len(extra)]

\* The initial configuration GetConfigHandler and UpdateTimeoutHandler build
\* when storage holds none.
defaultConfig(timeoutHours) ==
    LET a0 == getEmailsFromEnv(env.ALLOWED_EMAILS)
        d0 == getEmailsFromEnv(env.ADMIN_EMAILS)
        demo == Len(a0) = 0 /\ Len(d0) = 0
        allowed == IF demo THEN DemoAllowedEmails ELSE a0
        admins == IF demo THEN DemoAdminEmails ELSE d0
    IN [TimeoutHours |-> timeoutHours,
        AllowedEmails |-> AppendMissing(allowed, admins),
        AdminEmails |-> admins]

GetConfigHandler ==
    LET c == IF config = <<>> THEN defaultConfig(24) ELSE config[1]
    IN /\ config' = <<c>>
       /\ resp' = Resp("get_config", 200, "", <<>>, <<c>>)
       /\ UNCHANGED <<heap, calls, now, env, allowedEmails, inflight, plant, users, cookie, nextState>>

\* UpdateTimeoutHandler validating against the plant's ceiling of 8760 hours
UpdateTimeoutHandler_PlantCeiling(timeoutHours) ==
    /\ IF timeoutHours < 1 \/ timeoutHours > 8760
       THEN /\ resp' = Resp("update_timeout", 400, "Timeout must be between 1 and 168 hours",
                            timeoutHours, <<>>)
            /\ UNCHANGED <<config, plant>>
       ELSE /\ config' = IF config = <<>> THEN <<defaultConfig(timeoutHours)>>
                         ELSE <<[config[1] EXCEPT !.TimeoutHours = timeoutHours]>>
            /\ plant' = IF plant # <<>>
                        THEN <<[plant[1] EXCEPT !.TimeoutHours = timeoutHours]>>
                        ELSE plant
            /\ resp' = Resp("update_timeout", 200, "", timeoutHours, <<>>)
    /\ UNCHANGED <<heap, calls, now, env, allowedEmails, inflight, users, cookie, nextState>>

UpdateTimeoutHandler(timeoutHours) ==
    /\ IF timeoutHours < 1 \/ timeoutHours > 168
       THEN /\ resp' = Resp("update_timeout", 400, "Timeout must be between 1 and 168 hours",
                            timeoutHours, <<>>)
            /\ UNCHANGED <<config, plant>>
       ELSE /\ config' = IF config = <<>> THEN <<defaultConfig(timeoutHours)>>
                         ELSE <<[config[1] EXCEPT !.TimeoutHours = timeoutHours]>>
            /\ plant' = IF plant # <<>>
                        THEN <<[plant[1] EXCEPT !.TimeoutHours = timeoutHours]>>
                        ELSE plant
            /\ resp' = Resp("update_timeout", 200, "", timeoutHours, <<>>)
    /\ UNCHANGED <<heap, calls, now, env, allowedEmails, inflight, users, cookie, nextState>>

\* strings.TrimSpace(strings.ToLower(s)) on the input alphabet
ToLowerTrim(s) == IF s = " Guest@X.com " THEN GuestEmail ELSE s

\* strings.Contains(email, "@") && strings.Contains(email, ".")
HasAtAndDot(s) == s \notin {"", "bad", "guest.x.com", "guest@x"}

\* AddUserHandler without the check for an email already in the list
AddUserHandler_NoDuplicateCheck(rawEmail) ==
    LET email == ToLowerTrim(rawEmail)
        c == IF config = <<>>
             THEN [TimeoutHours |-> 24, AllowedEmails |-> <<>>, AdminEmails |-> <<AdminEmail>>]
             ELSE config[1]
    IN /\ IF email = ""
          THEN /\ resp' = Resp("add_user", 400, "Email is required", rawEmail, <<>>)
               /\ UNCHANGED config
          ELSE IF ~HasAtAndDot(email)
          THEN /\ resp' = Resp("add_user", 400, "Invalid email format", rawEmail, <<>>)
               /\ UNCHANGED config
          ELSE /\ config' = <<[c EXCEPT !.AllowedEmails = Append(c.AllowedEmails, email)]>>
               /\ resp' = Resp("add_user", 201, "", rawEmail, email)
       /\ UNCHANGED <<heap, calls, now, env, allowedEmails, inflight, plant, users, cookie, nextState>>

AddUserHandler(rawEmail) ==
    LET email == ToLowerTrim(rawEmail)
        c == IF config = <<>>
             THEN [TimeoutHours |-> 24, AllowedEmails |-> <<>>, AdminEmails |-> <<AdminEmail>>]
             ELSE config[1]
    IN /\ IF email = ""
          THEN /\ resp' = Resp("add_user", 400, "Email is required", rawEmail, <<>>)
               /\ UNCHANGED config
          ELSE IF ~HasAtAndDot(email)
          THEN /\ resp' = Resp("add_user", 400, "Invalid email format", rawEmail, <<>>)
               /\ UNCHANGED config
          ELSE IF email \in Range(c.AllowedEmails)
          THEN /\ resp' = Resp("add_user", 409, "Email already exists in whitelist", rawEmail, <<>>)
               /\ UNCHANGED config
          ELSE /\ config' = <<[c EXCEPT !.AllowedEmails = Append(c.AllowedEmails, email)]>>
               /\ resp' = Resp("add_user", 201, "", rawEmail, email)
       /\ UNCHANGED <<heap, calls, now, env, allowedEmails, inflight, plant, users, cookie, nextState>>

\* RemoveUserHandler comparing the email as it was sent
RemoveUserHandler_Raw(rawEmail) ==
    LET email == rawEmail
    IN /\ IF rawEmail = ""
          THEN /\ resp' = Resp("remove_user", 400, "Email parameter is required", rawEmail, <<>>)
               /\ UNCHANGED config
          ELSE IF config = <<>>
          THEN /\ resp' = Resp("remove_user", 404, "No configuration found", rawEmail, <<>>)
               /\ UNCHANGED config
          ELSE IF email \notin Range(config[1].AllowedEmails)
          THEN /\ resp' = Resp("remove_user", 404, "Email not found in whitelist", rawEmail, <<>>)
               /\ UNCHANGED config
          ELSE /\ config' = <<[config[1] EXCEPT !.AllowedEmails =
                                 SelectSeq(config[1].AllowedEmails, LAMBDA e : e # email)]>>
               /\ resp' = Resp("remove_user", 200, "", rawEmail, email)
       /\ UNCHANGED <<heap, calls, now, env, allowedEmails, inflight, plant, users, cookie, nextState>>

RemoveUserHandler(rawEmail) ==
    LET email == ToLowerTrim(rawEmail)
    IN /\ IF rawEmail = ""
          THEN /\ resp' = Resp("remove_user", 400, "Email parameter is required", rawEmail, <<>>)
               /\ UNCHANGED config
          ELSE IF config = <<>>
          THEN /\ resp' = Resp("remove_user", 404, "No configuration found", rawEmail, <<>>)
               /\ UNCHANGED config
          ELSE IF email \notin Range(config[1].AllowedEmails)
          THEN /\ resp' = Resp("remove_user", 404, "Email not found in whitelist", rawEmail, <<>>)
               /\ UNCHANGED config
          ELSE /\ config' = <<[config[1] EXCEPT !.AllowedEmails =
                                 SelectSeq(config[1].AllowedEmails, LAMBDA e : e # email)]>>
               /\ resp' = Resp("remove_user", 200, "", rawEmail, email)
       /\ UNCHANGED <<heap, calls, now, env, allowedEmails, inflight, plant, users, cookie, nextState>>

\* GetStatsHandler reads config.AllowedEmails without a nil check: with no
\* configuration stored the handler panics (nil pointer dereference) and the
\* request gets no statistics; 500 is what the recovering middleware answers
GetStatsHandler ==
    /\ resp' = IF config = <<>>
               THEN Resp("stats", 500, "panic: nil pointer dereference", <<>>, <<>>)
               ELSE Resp("stats", 200, "", <<>>,
                         [totalUsers |-> Len(config[1].AllowedEmails),
                          adminUsers |-> Len(config[1].AdminEmails),
                          timeoutHours |-> config[1].TimeoutHours,
                          plantWatered |-> plant # <<>> /\ plant[1].LastWatered # <<>>,
                          lastWatered |-> IF plant # <<>> THEN plant[1].LastWatered ELSE <<>>,
                          wateredBy |-> IF plant # <<>> /\ plant[1].LastWatered # <<>>
                                        THEN plant[1].WateredBy ELSE ""])
    /\ UNCHANGED <<heap, calls, now, env, allowedEmails, inflight, plant, config, users, cookie, nextState>>

(***************************************************************************)
(* Authentication and sessions (auth.AuthService, handlers.AuthHandlers)   *)
(***************************************************************************)

\* AuthService.adminEmails and AuthService.allowedEmails as NewAuthService
\* fills them from the environment; it keeps the empty parts of a value.
\* adminEmails is never written again, allowedEmails only by
\* SetAllowedEmails.
StaticAdminEmails ==
    IF env.ADMIN_EMAILS # <<>> THEN Range(env.ADMIN_EMAILS) ELSE {AdminEmail}

StaticAllowedEmails ==
    (IF env.ALLOWED_EMAILS # <<>> THEN Range(env.ALLOWED_EMAILS)
     ELSE Range(DemoAllowedEmails)) \cup StaticAdminEmails

IsUserAllowed(email) ==
    IF email \in allowedEmails THEN TRUE
    ELSE IF config = <<>> THEN email \in allowedEmails
    ELSE email \in Range(config[1].AllowedEmails)

IsUserAdmin(email) ==
    IF email \in StaticAdminEmails THEN TRUE
    ELSE IF config = <<>> THEN email \in StaticAdminEmails
    ELSE email \in Range(config[1].AdminEmails)

NoSession == [oauth_state |-> <<>>, authenticated |-> FALSE, user_email |-> "",
              user_name |-> "", is_admin |-> FALSE]

\* GetCurrentUser on the session a request carries: <<>> when the session
\* is not authenticated
GetCurrentUser(session) ==
    IF ~session.authenticated THEN <<>>
    ELSE <<[Email |-> session.user_email, Name |-> session.user_name,
            IsAdmin |-> session.is_admin]>>

IsAuthenticated(session) == GetCurrentUser(session) # <<>>

\* GenerateStateToken: a fresh random value, never one generated before
GenerateStateToken == nextState + 1

\* badCookie: the request carries a session cookie that does not decode, so
\* GetSession returns an error.
LoginHandler(badCookie) ==
    /\ nextState < MaxLogins
    /\ nextState' = GenerateStateToken
    /\ IF badCookie
       THEN /\ resp' = Resp("login", 500,
                            "Session initialization failed. Please clear your browser cookies and try again.",
                            <<>>, <<>>)
            /\ UNCHANGED cookie
       ELSE /\ cookie' = [cookie EXCEPT !.oauth_state = <<GenerateStateToken>>]
            /\ resp' = Resp("login", 307, "", <<>>, GenerateStateToken)
    /\ UNCHANGED <<heap, calls, now, env, allowedEmails, inflight, plant, config, users>>

\* CreateSession: the values written to the session and the upsert of the
\* User record
SessionFor(session, userInfo) ==
    [session EXCEPT !.user_email = userInfo.Email,
                    !.user_name = userInfo.Name,
                    !.is_admin = IsUserAdmin(userInfo.Email),
                    !.authenticated = TRUE]

\* The User record stamped with the time of every login
UserFor_Rejoin(userInfo) ==
    [Email |-> userInfo.Email, Name |-> userInfo.Name,
     IsAdmin |-> IsUserAdmin(userInfo.Email),
     JoinedAt |-> now]

UserFor(userInfo) ==
    [Email |-> userInfo.Email, Name |-> userInfo.Name,
     IsAdmin |-> IsUserAdmin(userInfo.Email),
     JoinedAt |-> IF users[userInfo.Email] # <<>>
                  THEN users[userInfo.Email][1].JoinedAt ELSE now]

\* session: the session of the request being served
CreateSession(session, userInfo) ==
    /\ cookie' = SessionFor(session, userInfo)
    /\ users' = [users EXCEPT ![userInfo.Email] = <<UserFor(userInfo)>>]

\* CallbackHandler without the comparison of the returned state
CallbackHandler_NoStateCheck(code, state, badCookie) ==
    LET arg == [code |-> code, state |-> state, exchange |-> <<>>, badCookie |-> badCookie]
    IN /\ IF code = ""
          THEN /\ resp' = Resp("callback", 400, "Authorization code not found", arg, <<>>)
               /\ UNCHANGED inflight
          ELSE IF badCookie
          THEN /\ resp' = Resp("callback", 500,
                               "Session validation failed. Please clear your browser cookies and try logging in again.",
                               arg, <<>>)
               /\ UNCHANGED inflight
          ELSE /\ inflight = <<>>
               /\ inflight' = <<[session |-> cookie, code |-> code, state |-> state]>>
               /\ resp' = Resp("callback_wait", 0, "", arg, <<>>)
       /\ UNCHANGED <<heap, calls, allowedEmails, now, env, plant, config, users, cookie,
                      nextState>>

\* CallbackHandler from the arrival of the request to the call of
\* HandleCallback: a request that passes the code, session and state checks
\* waits for the identity provider (token exchange and userinfo request),
\* and other requests are served meanwhile.  One callback waits at a time.
\* badCookie: the request carries a session cookie that does not decode.
CallbackHandler(code, state, badCookie) ==
    LET arg == [code |-> code, state |-> state, exchange |-> <<>>, badCookie |-> badCookie]
    IN /\ IF code = ""
          THEN /\ resp' = Resp("callback", 400, "Authorization code not found", arg, <<>>)
               /\ UNCHANGED inflight
          ELSE IF badCookie
          THEN /\ resp' = Resp("callback", 500,
                               "Session validation failed. Please clear your browser cookies and try logging in again.",
                               arg, <<>>)
               /\ UNCHANGED inflight
          ELSE IF cookie.oauth_state = <<>> \/ state # cookie.oauth_state[1]
          THEN /\ resp' = Resp("callback", 400, "Invalid state parameter", arg, <<>>)
               /\ UNCHANGED inflight
          ELSE /\ inflight = <<>>
               /\ inflight' = <<[session |-> cookie, code |-> code, state |-> state]>>
               /\ resp' = Resp("callback_wait", 0, "", arg, <<>>)
       /\ UNCHANGED <<heap, calls, allowedEmails, now, env, plant, config, users, cookie,
                      nextState>>

\* CallbackHandler from the return of HandleCallback on.  exchange: what
\* HandleCallback obtained from the provider, <<>> when the exchange or the
\* identity fetch failed.  The session written is the one the waiting
\* request carried, and the response's cookie replaces the browser's.
HandleCallbackReturn(exchange) ==
    /\ inflight # <<>>
    /\ LET r == inflight[1]
           arg == [code |-> r.code, state |-> r.state, exchange |-> exchange,
                   badCookie |-> FALSE]
       IN IF exchange = <<>>
          THEN /\ resp' = Resp("callback", 500, "Authentication failed", arg, <<>>)
               /\ UNCHANGED <<cookie, users>>
          ELSE IF ~IsUserAllowed(exchange[1].Email)
          THEN /\ resp' = Resp("callback", 403, "Access denied: User not authorized", arg, <<>>)
               /\ UNCHANGED <<cookie, users>>
          ELSE /\ CreateSession(r.session, exchange[1])
               /\ resp' = Resp("callback", 303, "", arg, <<>>)
    /\ inflight' = <<>>
    /\ UNCHANGED <<heap, calls, allowedEmails, now, env, plant, config, nextState>>

\* ClearSession empties the values and expires the cookie; arg is the cookie
\* the request carried, the one the browser held since login
LogoutHandler ==
    /\ cookie' = NoSession
    /\ resp' = Resp("logout", 303, "", cookie, <<>>)
    /\ UNCHANGED <<heap, calls, now, env, allowedEmails, inflight, plant, config, users, nextState>>

\* The allowlists SetAllowedEmails is given
AllowlistOptions == {{TestEmail}}

\* SetAllowedEmails replaces the static allowlist
SetAllowedEmails(emails) ==
    /\ allowedEmails' = emails
    /\ resp' = Resp("set_allowed_emails", 0, "", emails, <<>>)
    /\ UNCHANGED <<heap, calls, inflight, now, env, plant, config, users, cookie, nextState>>

\* is_user_allowed / is_user_admin asked for an email
IsUserAllowedCall(email) ==
    /\ resp' = Resp("is_user_allowed", 0, "", email, IsUserAllowed(email))
    /\ UNCHANGED <<heap, calls, now, env, allowedEmails, inflight, plant, config, users, cookie, nextState>>

IsUserAdminCall(email) ==
    /\ resp' = Resp("is_user_admin", 0, "", email, IsUserAdmin(email))
    /\ UNCHANGED <<heap, calls, now, env, allowedEmails, inflight, plant, config, users, cookie, nextState>>

\* IsDemoMode answering yes whatever the credentials
IsDemoMode_Unconditional ==
    TRUE

\* IsDemoMode: NewAuthService replaces missing credentials by the demo ones
IsDemoMode ==
    LET clientID == IF env.GOOGLE_CLIENT_ID = "" \/ env.GOOGLE_CLIENT_SECRET = ""
                    THEN "demo-client-id" ELSE env.GOOGLE_CLIENT_ID
    IN clientID = "demo-client-id"

\* The error CreateDemoSession returns, "" for nil; name[0:1] of an empty
\* name is out of range and the call panics before any session is written
DemoSessionError(email, name) ==
    IF ~IsDemoMode THEN "demo sessions only available in demo mode"
    ELSE IF ~IsUserAllowed(email) THEN "user not in allowlist"
    ELSE IF name = "" THEN "panic: slice bounds out of range"
    ELSE ""

\* CreateDemoSession taking the admin flag from its argument
CreateDemoSession_TrustsFlag(email, name, isAdmin) ==
    IF DemoSessionError(email, name) # ""
    THEN UNCHANGED <<cookie, users>>
    ELSE /\ cookie' = [SessionFor(cookie, [Email |-> email, Name |-> name])
                         EXCEPT !.is_admin = isAdmin]
         /\ users' = [users EXCEPT ![email] =
                         <<[UserFor([Email |-> email, Name |-> name])
                              EXCEPT !.IsAdmin = isAdmin]>>]

\* CreateDemoSession: the session and the user record it leaves behind; the
\* isAdmin argument is not read
CreateDemoSession(email, name, isAdmin) ==
    IF DemoSessionError(email, name) # ""
    THEN UNCHANGED <<cookie, users>>
    ELSE CreateSession(cookie, [Email |-> email, Name |-> name])

CreateDemoSessionCall(email, name, isAdmin) ==
    /\ CreateDemoSession(email, name, isAdmin)
    /\ resp' = Resp("create_demo_session", 0, DemoSessionError(email, name),
                    [email |-> email, name |-> name, admin |-> isAdmin], <<>>)
    /\ UNCHANGED <<heap, calls, now, env, allowedEmails, inflight, plant, config, nextState>>

\* GET/POST /auth/demo-login; simple is the query parameter simple=true,
\* acceptJSON the header Accept: application/json
DemoLoginHandler(method, simple, acceptJSON, email, name, admin) ==
    LET arg == [method |-> method, simple |-> simple, acceptJSON |-> acceptJSON,
                email |-> email, name |-> name, admin |-> admin]
        n == IF name = "" THEN "Demo User" ELSE name
    IN /\ IF ~IsDemoMode
          THEN /\ resp' = Resp("demo_login", 404, "Demo login only available in demo mode",
                               arg, <<>>)
               /\ UNCHANGED <<cookie, users>>
          ELSE IF method = "GET" /\ simple
          THEN /\ CreateDemoSession(TestEmail, "Demo User", FALSE)
               /\ resp' = IF DemoSessionError(TestEmail, "Demo User") # ""
                          THEN Resp("demo_login", 400,
                                    "Failed to create demo session: "
                                       \o DemoSessionError(TestEmail, "Demo User"),
                                    arg, <<>>)
                          ELSE Resp("demo_login", IF acceptJSON THEN 200 ELSE 303, "", arg, <<>>)
          ELSE IF method = "POST"
          THEN IF email = ""
               THEN /\ resp' = Resp("demo_login", 400, "Email is required", arg, <<>>)
                    /\ UNCHANGED <<cookie, users>>
               ELSE /\ CreateDemoSession(email, n, admin)
                    /\ resp' = IF DemoSessionError(email, n) # ""
                               THEN Resp("demo_login", 400,
                                         "Failed to create demo session: "
                                            \o DemoSessionError(email, n),
                                         arg, <<>>)
                               ELSE Resp("demo_login", 303, "", arg, <<>>)
          ELSE /\ resp' = Resp("demo_login", 200, "", arg, <<>>)
               /\ UNCHANGED <<cookie, users>>
       /\ UNCHANGED <<heap, calls, now, env, allowedEmails, inflight, plant, config, nextState>>

\* GET /auth/status.  The session cookie is kept by the client and the
\* server holds no record of it: a request may carry the browser's current
\* cookie or, after a logout, the cookie that was sent with the logout
\* request (replay).
StatusHandler(replay) ==
    LET session == IF replay THEN resp.arg ELSE cookie
    IN /\ replay => resp.op = "logout"
       /\ resp' = Resp("GET /auth/status", 200, "", session,
                       [authenticated |-> GetCurrentUser(session) # <<>>,
                        user |-> GetCurrentUser(session)])
       /\ UNCHANGED <<heap, calls, now, env, allowedEmails, inflight, plant, config, users, cookie, nextState>>

(***************************************************************************)
(* HTTP plant handlers behind the router's middleware                      *)
(***************************************************************************)

\* WaterPlantHandler: status, stored plant and body for a request carrying
\* the given session
WaterPlantHandler(session) ==
    IF GetCurrentUser(session) = <<>>
    THEN [status |-> 401, plant |-> plant, err |-> "Authentication required", out |-> <<>>]
    ELSE LET r == WaterPlant(GetCurrentUser(session)[1].Email)
         IN IF r.err # ""
            THEN [status |-> 500, plant |-> r.plant, err |-> "Failed to water plant", out |-> <<>>]
            ELSE [status |-> 200, plant |-> r.plant, err |-> "", out |-> r.out]

\* AuthRequired handing every request to the wrapped handler
AuthRequired_PassThrough(session, next) ==
    next

\* AuthRequired(next): redirect to /login unless the request is authenticated
AuthRequired(session, next) ==
    IF ~IsAuthenticated(session)
    THEN [status |-> 303, plant |-> plant, err |-> "/login", out |-> <<>>]
    ELSE next

\* POST /api/plant/water as the router wires it, sent with the browser's
\* cookie
PostWater ==
    LET r == AuthRequired(cookie, WaterPlantHandler(cookie))
    IN /\ plant' = r.plant
       /\ resp' = Resp("POST /api/plant/water", r.status, r.err, cookie, r.out)
       /\ UNCHANGED <<heap, calls, now, env, allowedEmails, inflight, config, users, cookie, nextState>>

\* UpdatePlantSettingsHandler (PUT /api/plant/settings)
UpdatePlantSettingsHandler(name, timeoutHours) ==
    LET r == UpdatePlantSettings(name, timeoutHours)
    IN /\ plant' = r.plant
       /\ resp' = IF r.err # ""
                  THEN Resp("UpdatePlantSettingsHandler", 400,
                            "Failed to update plant settings: " \o r.err,
                            <<name, timeoutHours>>, <<>>)
                  ELSE Resp("UpdatePlantSettingsHandler", 200, "",
                            <<name, timeoutHours>>, r.out)
       /\ UNCHANGED <<heap, calls, now, env, allowedEmails, inflight, config, users, cookie, nextState>>

\* ResetPlantHandler (POST /api/plant/reset)
ResetPlantHandler ==
    LET r == ResetPlant
    IN /\ plant' = r.plant
       /\ resp' = IF r.err # ""
                  THEN Resp("ResetPlantHandler", 500, "Failed to reset plant", <<>>, <<>>)
                  ELSE Resp("ResetPlantHandler", 200, "", <<>>, r.out)
       /\ UNCHANGED <<heap, calls, now, env, allowedEmails, inflight, config, users, cookie, nextState>>

\* AdminRequired answering 403 only when nobody is logged in
AdminRequired_AnyUser(route, session, next) ==
    IF GetCurrentUser(session) = <<>>
    THEN /\ resp' = Resp("AdminRequired", 403, "Admin access required",
                         [route |-> route, session |-> session], <<>>)
         /\ UNCHANGED <<heap, calls, now, env, allowedEmails, inflight, plant, config, users, cookie, nextState>>
    ELSE next

\* AdminRequired(next): 403 unless the session's user is an administrator;
\* route names the request for the record
AdminRequired(route, session, next) ==
    IF GetCurrentUser(session) = <<>> \/ ~GetCurrentUser(session)[1].IsAdmin
    THEN /\ resp' = Resp("AdminRequired", 403, "Admin access required",
                         [route |-> route, session |-> session], <<>>)
         /\ UNCHANGED <<heap, calls, now, env, allowedEmails, inflight, plant, config, users, cookie, nextState>>
    ELSE next

\* The admin-only routes as the router wires them, sent with the browser's
\* cookie
PutPlantSettings(name, timeoutHours) ==
    AdminRequired("PUT /api/plant/settings", cookie,
                  UpdatePlantSettingsHandler(name, timeoutHours))

PostPlantReset ==
    AdminRequired("POST /api/plant/reset", cookie, ResetPlantHandler)

GetAdminConfig ==
    AdminRequired("GET /admin/config", cookie, GetConfigHandler)

PutAdminTimeout(timeoutHours) ==
    AdminRequired("PUT /admin/config/timeout", cookie, UpdateTimeoutHandler(timeoutHours))

PostAdminUser(rawEmail) ==
    AdminRequired("POST /admin/users", cookie, AddUserHandler(rawEmail))

DeleteAdminUser(rawEmail) ==
    AdminRequired("DELETE /admin/users/{email}", cookie, RemoveUserHandler(rawEmail))

(***************************************************************************)
(* Concurrent calls of the plant service.  Neither PlantService nor        *)
(* MemoryStorage takes a lock, so the calls of two requests interleave at  *)
(* every read and write of MemoryStorage.plant and of the fields of the    *)
(* PlantState it points to.  heap.objs[a] is the PlantState at address a;  *)
(* plant is kept equal to the record MemoryStorage.plant points to.        *)
(***************************************************************************)
IdleCall == [pc |-> "idle", op |-> "", actor |-> "", ptr |-> 0, t |-> 0, out |-> <<>>]

\* *m.plant
Deref(h) == IF h.m_plant = 0 THEN <<>> ELSE <<h.objs[h.m_plant]>>

\* a request enters GetPlant / GetPlantStatus / GetPlantTimer / WaterPlant
StartCall(p, op, actor) ==
    /\ calls[p].pc = "idle"
    /\ calls' = [calls EXCEPT ![p] = [IdleCall EXCEPT !.pc = "get", !.op = op,
                                                      !.actor = actor]]
    /\ UNCHANGED <<heap, plant, resp, now, env, allowedEmails, inflight, config, users, cookie, nextState>>

\* GetPlant: plant := storage.GetPlantState(); a nil result sends the call
\* to createDefaultPlant
StepGetPlantState(p) ==
    /\ calls[p].pc = "get"
    /\ calls' = IF heap.m_plant = 0
                THEN [calls EXCEPT ![p].pc = "create_default"]
                ELSE [calls EXCEPT ![p].ptr = heap.m_plant, ![p].pc = "got"]
    /\ UNCHANGED <<heap, plant, resp, now, env, allowedEmails, inflight, config, users, cookie, nextState>>

\* GetPlant: plant = s.createDefaultPlant(), a new PlantState stamped with
\* the clock as it is read now
StepCreateDefaultPlant(p) ==
    /\ calls[p].pc = "create_default"
    /\ heap' = [heap EXCEPT !.objs = Append(@, createDefaultPlant(now))]
    /\ calls' = [calls EXCEPT ![p].ptr = Len(heap.objs) + 1, ![p].pc = "store_default"]
    /\ UNCHANGED <<plant, resp, now, env, allowedEmails, inflight, config, users, cookie, nextState>>

\* GetPlant: storage.UpdatePlantState(plant) of the default plant
StepStoreDefault(p) ==
    /\ calls[p].pc = "store_default"
    /\ heap' = [heap EXCEPT !.m_plant = calls[p].ptr]
    /\ plant' = Deref(heap')
    /\ calls' = [calls EXCEPT ![p].pc = "got"]
    /\ UNCHANGED <<resp, now, env, allowedEmails, inflight, config, users, cookie, nextState>>

\* a read returns what it sees through its pointer
StepReturnRead(p) ==
    /\ calls[p].pc = "got"
    /\ calls[p].op # "water"
    /\ calls' = [calls EXCEPT ![p].out = <<heap.objs[calls[p].ptr]>>, ![p].pc = "done"]
    /\ resp' = Resp(calls[p].op, 0, "", <<>>, <<heap.objs[calls[p].ptr]>>)
    /\ UNCHANGED <<heap, plant, now, env, allowedEmails, inflight, config, users, cookie, nextState>>

\* WaterPlant: now := time.Now(), kept in the call's local t
StepTimeNow(p) ==
    /\ calls[p].pc = "got"
    /\ calls[p].op = "water"
    /\ calls' = [calls EXCEPT ![p].t = now, ![p].pc = "set_last_watered"]
    /\ UNCHANGED <<heap, plant, resp, now, env, allowedEmails, inflight, config, users, cookie, nextState>>

\* WaterPlant: plant.LastWatered = &now
StepSetLastWatered(p) ==
    /\ calls[p].pc = "set_last_watered"
    /\ heap' = [heap EXCEPT !.objs[calls[p].ptr].LastWatered = <<calls[p].t>>]
    /\ plant' = Deref(heap')
    /\ calls' = [calls EXCEPT ![p].pc = "set_watered_by"]
    /\ UNCHANGED <<resp, now, env, allowedEmails, inflight, config, users, cookie, nextState>>

\* WaterPlant: plant.WateredBy = wateredBy
StepSetWateredBy(p) ==
    /\ calls[p].pc = "set_watered_by"
    /\ heap' = [heap EXCEPT !.objs[calls[p].ptr].WateredBy = calls[p].actor]
    /\ plant' = Deref(heap')
    /\ calls' = [calls EXCEPT ![p].pc = "set_updated_at"]
    /\ UNCHANGED <<resp, now, env, allowedEmails, inflight, config, users, cookie, nextState>>

\* WaterPlant: plant.UpdatedAt = now
StepSetUpdatedAt(p) ==
    /\ calls[p].pc = "set_updated_at"
    /\ heap' = [heap EXCEPT !.objs[calls[p].ptr].UpdatedAt = calls[p].t]
    /\ plant' = Deref(heap')
    /\ calls' = [calls EXCEPT ![p].pc = "save"]
    /\ UNCHANGED <<resp, now, env, allowedEmails, inflight, config, users, cookie, nextState>>

\* WaterPlant: storage.UpdatePlantState(plant) and the successful return
StepSaveWatered(p) ==
    /\ calls[p].pc = "save"
    /\ heap' = [heap EXCEPT !.m_plant = calls[p].ptr]
    /\ plant' = Deref(heap')
    /\ calls' = [calls EXCEPT ![p].out = <<heap.objs[calls[p].ptr]>>, ![p].pc = "done"]
    /\ resp' = Resp("water", 0, "", calls[p].actor, <<heap.objs[calls[p].ptr]>>)
    /\ UNCHANGED <<now, env, allowedEmails, inflight, config, users, cookie, nextState>>

(***************************************************************************)
(* The clock                                                               *)
(***************************************************************************)
NoResp == Resp("none", 0, "", <<>>, <<>>)

\* Time passes between calls; resp describes the call just made, so it is
\* cleared.
Tick ==
    /\ now < MaxTime
    /\ now' = now + 1
    /\ resp' = NoResp
    /\ UNCHANGED <<heap, calls, env, allowedEmails, inflight, plant, config, users, cookie, nextState>>

(***************************************************************************)
(* Specifications                                                          *)
(***************************************************************************)
Init ==
    /\ now = 0
    /\ env \in EnvOptions
    /\ plant = <<>>
    /\ config = <<>>
    /\ users = [e \in UserEmails |-> <<>>]
    /\ cookie = NoSession
    /\ nextState = 0
    /\ resp = NoResp
    /\ heap = [objs |-> <<>>, m_plant |-> 0]
    /\ calls = [p \in Procs |-> IdleCall]
    /\ allowedEmails = StaticAllowedEmails
    /\ inflight = <<>>

\* The plant service together with the admin timeout and configuration
Next ==
    \/ Tick
    \/ GetPlantCall
    \/ \E a \in Actors \cup {""} : WaterPlantCall(a)
    \/ GetPlantStatusCall
    \/ GetPlantTimerCall
    \/ \E n \in PlantNames, t \in SettingsTimeouts : UpdatePlantSettingsCall(n, t)
    \/ ResetPlantCall
    \/ GetConfigHandler
    \/ \E h \in AdminTimeouts : UpdateTimeoutHandler(h)

Spec == Init /\ [][Next]_vars

\* Login, the allowlist and the routed watering request
ExchangeResults ==
    {<<>>} \cup { <<[Email |-> e, Name |-> n]>> : e \in UserEmails, n \in UserNames }

AuthNext ==
    \/ \E b \in BOOLEAN : LoginHandler(b)
    \/ \E c \in AuthCodes, s \in 0..MaxLogins, b \in BOOLEAN : CallbackHandler(c, s, b)
    \/ \E x \in ExchangeResults : HandleCallbackReturn(x)
    \/ LogoutHandler
    \/ GetConfigHandler
    \/ \E e \in RawEmails : AddUserHandler(e)
    \/ \E e \in RawEmails : RemoveUserHandler(e)
    \/ \E e \in UserEmails : IsUserAllowedCall(e)
    \/ \E e \in UserEmails : IsUserAdminCall(e)
    \/ PostWater

AuthSpec == Init /\ [][AuthNext]_vars

\* The two allowlists, the static one of the service and the one of the
\* stored configuration, each being changed while emails are looked up
AllowlistNext ==
    \/ \E a \in AllowlistOptions : SetAllowedEmails(a)
    \/ GetConfigHandler
    \/ \E e \in RawEmails : AddUserHandler(e)
    \/ \E e \in RawEmails : RemoveUserHandler(e)
    \/ \E e \in UserEmails \cup {""} : IsUserAllowedCall(e)
    \/ \E e \in UserEmails \cup {""} : IsUserAdminCall(e)

AllowlistSpec == Init /\ [][AllowlistNext]_vars

\* The derived indicators of one plant value at one instant: the plant and
\* the clock are drawn so that the elapsed time falls on and around the
\* half-timeout and timeout boundaries.
DomainTimeouts == {1, 2, 3, 24, 168, 8760}

ElapsedSamples(T) ==
    LET full == T * TicksPerHour
        half == full \div 2
    IN { e \in {0, 1, half - 1, half, half + 1, full - 1, full, full + 1} : e >= 0 }

DomainInit ==
    /\ \E T \in DomainTimeouts : \E e \in ElapsedSamples(T), watered \in BOOLEAN :
          /\ now = e
          /\ plant = <<[ID |-> 1, Name |-> "Our Plant",
                        LastWatered |-> IF watered THEN <<0>> ELSE <<>>,
                        TimeoutHours |-> T,
                        WateredBy |-> IF watered THEN TestEmail ELSE "",
                        CreatedAt |-> 0, UpdatedAt |-> 0]>>
    /\ env \in EnvOptions
    /\ config = <<>>
    /\ users = [e \in UserEmails |-> <<>>]
    /\ cookie = NoSession
    /\ nextState = 0
    /\ resp = NoResp
    /\ heap = [objs |-> <<>>, m_plant |-> 0]
    /\ calls = [p \in Procs |-> IdleCall]
    /\ allowedEmails = StaticAllowedEmails
    /\ inflight = <<>>

DomainNext ==
    \/ GetPlantCall
    \/ GetPlantStatusCall
    \/ GetPlantTimerCall

DomainSpec == DomainInit /\ [][DomainNext]_vars

\* The demo login, logout and the routes behind the two middlewares
GateNames == {"Fern"}
GateTimeouts == {-1, 2}
GateHours == {0, 1}
GateEmails == {GuestEmail}
DemoNames == {"", "Ann"}

GateNext ==
    \/ \E simple \in BOOLEAN, acceptJSON \in BOOLEAN :
          DemoLoginHandler("GET", simple, acceptJSON, "", "", FALSE)
    \/ \E e \in UserEmails \cup {""}, n \in DemoNames, a \in BOOLEAN :
          DemoLoginHandler("POST", FALSE, FALSE, e, n, a)
    \/ \E e \in UserEmails, n \in DemoNames, a \in BOOLEAN : CreateDemoSessionCall(e, n, a)
    \/ LogoutHandler
    \/ \E replay \in BOOLEAN : StatusHandler(replay)
    \/ PostWater
    \/ \E n \in GateNames, t \in GateTimeouts : PutPlantSettings(n, t)
    \/ PostPlantReset
    \/ GetAdminConfig
    \/ \E h \in GateHours : PutAdminTimeout(h)
    \/ \E e \in GateEmails : PostAdminUser(e)
    \/ \E e \in GateEmails : DeleteAdminUser(e)

GateSpec == Init /\ [][GateNext]_vars

\* The admin configuration handlers on their own
ConfigNext ==
    \/ GetConfigHandler
    \/ \E h \in AdminTimeouts : UpdateTimeoutHandler(h)
    \/ \E e \in RawEmails \cup MalformedEmails : AddUserHandler(e)

ConfigSpec == Init /\ [][ConfigNext]_vars

\* ... and with the removal of users
UsersNext ==
    \/ ConfigNext
    \/ \E e \in RawEmails \cup MalformedEmails : RemoveUserHandler(e)

UsersSpec == Init /\ [][UsersNext]_vars

\* Every way to log in, and one admin-only route
LoginNext ==
    \/ \E b \in BOOLEAN : LoginHandler(b)
    \/ \E c \in AuthCodes, st \in 0..MaxLogins, b \in BOOLEAN : CallbackHandler(c, st, b)
    \/ \E x \in ExchangeResults : HandleCallbackReturn(x)
    \/ \E a \in AllowlistOptions : SetAllowedEmails(a)
    \/ \E simple \in BOOLEAN, acceptJSON \in BOOLEAN :
          DemoLoginHandler("GET", simple, acceptJSON, "", "", FALSE)
    \/ \E e \in UserEmails \cup {""}, n \in DemoNames, a \in BOOLEAN :
          DemoLoginHandler("POST", FALSE, FALSE, e, n, a)
    \/ \E e \in UserEmails, n \in DemoNames, a \in BOOLEAN : CreateDemoSessionCall(e, n, a)
    \/ LogoutHandler
    \/ PostPlantReset

LoginSpec == Init /\ [][LoginNext]_vars

\* Logins spread over time
JoinNext ==
    \/ Tick
    \/ LoginHandler(FALSE)
    \/ \E st \in 0..MaxLogins : CallbackHandler("code", st, FALSE)
    \/ \E x \in ExchangeResults \ {<<>>} : HandleCallbackReturn(x)
    \/ \E e \in UserEmails, n \in DemoNames : DemoLoginHandler("POST", FALSE, FALSE, e, n, FALSE)
    \/ LogoutHandler

JoinSpec == Init /\ [][JoinNext]_vars

\* Two requests calling the plant service at the same time, one call each
RaceNext ==
    \/ Tick
    \/ \E p \in Procs, a \in Actors : StartCall(p, "water", a)
    \/ \E p \in Procs, op \in {"get_plant", "get_status", "get_timer"} : StartCall(p, op, "")
    \/ \E p \in Procs : StepGetPlantState(p)
    \/ \E p \in Procs : StepCreateDefaultPlant(p)
    \/ \E p \in Procs : StepStoreDefault(p)
    \/ \E p \in Procs : StepReturnRead(p)
    \/ \E p \in Procs : StepTimeNow(p)
    \/ \E p \in Procs : StepSetLastWatered(p)
    \/ \E p \in Procs : StepSetWateredBy(p)
    \/ \E p \in Procs : StepSetUpdatedAt(p)
    \/ \E p \in Procs : StepSaveWatered(p)

RaceSpec == Init /\ [][RaceNext]_vars

\* ... and with the statistics and a plant that gets watered
StatsNext ==
    \/ UsersNext
    \/ GetStatsHandler
    \/ \E a \in Actors : WaterPlantCall(a)

StatsSpec == Init /\ [][StatsNext]_vars

(***************************************************************************)
(* Properties                                                              *)
(***************************************************************************)

\* C1: after update_timeout(h) succeeds (1 <= h <= 168), from any reachable
\* state, a fresh store included, the next get_timer() reports
\* timeout_hours = h and the next get_config() reports timeout_hours = h.
C1_TimeoutSynchronization ==
    [][(resp.op = "update_timeout" /\ resp.status = 200) =>
          /\ (resp'.op = "get_timer" => resp'.out.TimeoutHours = resp.arg)
          /\ (resp'.op = "get_config" => resp'.out[1].TimeoutHours = resp.arg)]_vars

\* C2: in every reachable state the stored plant has a non-empty name,
\* timeout_hours in [1, 8760], and watered_by non-empty iff last_watered is
\* present.
C2_PlantInvariants ==
    plant # <<>> =>
        /\ plant[1].Name # ""
        /\ plant[1].TimeoutHours >= 1 /\ plant[1].TimeoutHours <= 8760
        /\ (plant[1].WateredBy # "") <=> (plant[1].LastWatered # <<>>)

\* C3: when an AdminConfig exists, is_user_allowed(email) is true exactly
\* when email is in its allowed_emails and is_user_admin(email) exactly when
\* email is in its admin_emails; the static set decides only when no config
\* exists.
C3_DynamicListWins ==
    /\ resp.op = "is_user_allowed" =>
          resp.out = IF config # <<>> THEN resp.arg \in Range(config[1].AllowedEmails)
                     ELSE resp.arg \in allowedEmails
    /\ resp.op = "is_user_admin" =>
          resp.out = IF config # <<>> THEN resp.arg \in Range(config[1].AdminEmails)
                     ELSE resp.arg \in StaticAdminEmails

\* C4: the OAuth callback establishes an authenticated session and upserts
\* the User record only if, in this order, a non-empty code was supplied,
\* the returned state equals the oauth_state a prior login stored in the
\* session, the exchange succeeded and is_user_allowed(email) held;
\* otherwise it answers 400, 500 or 403 and neither the session nor the
\* users change.
C4_CallbackGuards ==
    [][/\ (resp'.op = "callback" /\ inflight' = inflight) =>
            \* turned away on arrival
            LET a == resp'.arg
                okCode == a.code # ""
                okSession == ~a.badCookie
                okState == cookie.oauth_state = <<a.state>>
            IN /\ ~(okCode /\ okSession /\ okState)
               /\ resp'.status = IF ~okCode THEN 400
                                 ELSE IF ~okSession THEN 500
                                 ELSE 400
               /\ cookie' = cookie
               /\ users' = users
       /\ resp'.op = "callback_wait" =>
            \* handed to the identity provider
            LET a == resp'.arg
            IN /\ a.code # ""
               /\ ~a.badCookie
               /\ cookie.oauth_state = <<a.state>>
               /\ inflight' = <<[session |-> cookie, code |-> a.code, state |-> a.state]>>
               /\ cookie' = cookie
               /\ users' = users
       /\ (resp'.op = "callback" /\ inflight' # inflight) =>
            \* answered after the provider returned
            LET a == resp'.arg
                r == inflight[1]
                okExchange == a.exchange # <<>>
                okAllowed == okExchange /\ IsUserAllowed(a.exchange[1].Email)
            IN /\ r.code # ""
               /\ r.session.oauth_state = <<r.state>>
               /\ resp'.status = IF ~okExchange THEN 500
                                 ELSE IF ~okAllowed THEN 403
                                 ELSE 303
               /\ resp'.status = 303 =>
                     /\ cookie'.authenticated
                     /\ cookie'.user_email = a.exchange[1].Email
                     /\ users'[a.exchange[1].Email] # <<>>
               /\ resp'.status # 303 =>
                     /\ cookie' = cookie
                     /\ users' = users]_vars

C4_Witness ==
    /\ resp.op = "callback"
    /\ resp.status = 303
    /\ cookie.authenticated
    /\ cookie.user_email = GuestEmail
    /\ users[GuestEmail] # <<>>

\* C5: the CSRF state token is single use: once a callback has been accepted
\* with state s, a second callback in the same session presenting the same s
\* (with a code, on the session's own cookie) is rejected with the
\* state-mismatch error.
C5_StateSingleUse ==
    [][(/\ resp.op = "callback" /\ resp.status = 303
        /\ resp'.op \in {"callback", "callback_wait"}
        /\ resp'.arg.code # "" /\ ~resp'.arg.badCookie
        /\ resp'.arg.state = resp.arg.state) =>
          (/\ resp'.op = "callback"
           /\ resp'.status = 400
           /\ resp'.err = "Invalid state parameter")]_vars

\* C6: is_overdue() is true iff the plant was never watered or the elapsed
\* time h since last_watered satisfies h >= timeout_hours (inclusive
\* boundary).
C6_OverdueInclusive ==
    resp.op = "get_status" =>
        resp.out.IsOverdue =
            (\/ plant[1].LastWatered = <<>>
             \/ now - plant[1].LastWatered[1] >= plant[1].TimeoutHours * TicksPerHour)

\* C7: for every timeout T in [1, 8760] and elapsed time h >= 0,
\* health_status() is healthy iff h < 0.5*T, needs_water iff
\* 0.5*T <= h < T, critical iff h >= T or never watered; exactly one of the
\* three values is returned.
C7_HealthBuckets ==
    resp.op = "get_status" =>
        LET p == plant[1]
            watered == p.LastWatered # <<>>
            h == now - p.LastWatered[1]
            T == p.TimeoutHours * TicksPerHour
        IN /\ resp.out.Status \in {"healthy", "needs_water", "critical"}
           /\ (resp.out.Status = "healthy") <=> (watered /\ 2 * h < T)
           /\ (resp.out.Status = "needs_water") <=> (watered /\ T <= 2 * h /\ h < T)
           /\ (resp.out.Status = "critical") <=> (~watered \/ h >= T)

C7_Witness ==
    /\ resp.op = "get_status"
    /\ plant[1].LastWatered # <<>>
    /\ 2 * (now - plant[1].LastWatered[1]) = plant[1].TimeoutHours * TicksPerHour
    /\ resp.out.Status = "needs_water"

\* C8: water(actor) with a non-empty actor succeeds and an immediately
\* following get_plant() returns watered_by = actor, last_watered present,
\* health_status healthy and is_overdue false; water("") fails with the
\* actor-required error and leaves the stored plant unchanged.
C8_WaterRoundTrip ==
    [][/\ resp'.op = "water" =>
             IF resp'.arg = ""
             THEN resp'.err = "watered_by field is required" /\ plant' = plant
             ELSE resp'.err = ""
       /\ (resp.op = "water" /\ resp.arg # "" /\ resp'.op = "get_plant") =>
             /\ resp'.err = ""
             /\ resp'.out[1].WateredBy = resp.arg
             /\ resp'.out[1].LastWatered # <<>>
             /\ GetHealthStatus(resp'.out[1], now') = "healthy"
             /\ ~IsOverdue(resp'.out[1], now')]_vars

C8_Witness ==
    /\ resp.op = "get_plant"
    /\ now > 0
    /\ resp.out[1].LastWatered = <<now>>
    /\ resp.out[1].WateredBy = GuestEmail
    /\ resp.out[1].TimeoutHours = 1

\* C9: update_settings("", 0) succeeds and leaves name and timeout_hours
\* unchanged; update_settings(name, 0) with a non-empty name changes only the
\* name; update_settings("", t) with 1 <= t <= 8760 changes only
\* timeout_hours; update_settings("", -1) fails and leaves the stored plant
\* unchanged.  "Before" is the plant the call reads (the default one on a
\* fresh store).
C9_SentinelUpdate ==
    [][resp'.op = "update_settings" =>
          LET n == resp'.arg[1]
              t == resp'.arg[2]
              before == GetPlant.out[1]
              after == plant'[1]
          IN /\ (n = "" /\ t = 0) =>
                   /\ resp'.err = ""
                   /\ after.Name = before.Name
                   /\ after.TimeoutHours = before.TimeoutHours
             /\ (n # "" /\ t = 0) =>
                   /\ resp'.err = ""
                   /\ after.Name = n
                   /\ after.TimeoutHours = before.TimeoutHours
             /\ (n = "" /\ t >= 1 /\ t <= 8760) =>
                   /\ resp'.err = ""
                   /\ after.Name = before.Name
                   /\ after.TimeoutHours = t
             /\ (n = "" /\ t = -1) =>
                   /\ resp'.err # ""
                   /\ after = before]_vars

\* C10: with the router's wiring (auth-required in front of the water
\* handler) an unauthenticated POST /api/plant/water is answered with 401 and
\* the stored plant is unchanged.
C10_UnauthenticatedWater ==
    [][(resp'.op = "POST /api/plant/water" /\ ~IsAuthenticated(resp'.arg)) =>
          (resp'.status = 401 /\ plant' = plant)]_vars

\* The handlers mounted behind AdminRequired, by the op they record
AdminHandlerOps ==
    {"UpdatePlantSettingsHandler", "ResetPlantHandler", "get_config", "update_timeout",
     "add_user", "remove_user"}

\* C11: on every admin-only route (PUT /api/plant/settings, POST
\* /api/plant/reset, /admin/*) a request whose session is absent, not
\* authenticated or not an administrator's is answered 403 and not
\* redirected, the wrapped handler is not invoked, and the Plant and the
\* AdminConfig are left as they were.
C11_AdminGate ==
    [][(~cookie.authenticated \/ ~cookie.is_admin) =>
          /\ resp'.op \notin AdminHandlerOps
          /\ (resp'.op = "AdminRequired" =>
                 /\ resp'.status = 403
                 /\ resp'.err = "Admin access required"
                 /\ plant' = plant
                 /\ config' = config
                 /\ users' = users)]_vars

\* an authenticated user who is no administrator was refused while a plant
\* and a configuration were stored
C11_Witness ==
    /\ resp.op = "AdminRequired"
    /\ resp.status = 403
    /\ cookie.authenticated
    /\ ~cookie.is_admin
    /\ plant # <<>>
    /\ config # <<>>

\* C12: on the route behind AuthRequired (POST /api/plant/water) a request
\* that is not authenticated is redirected (303) to /login and the handler
\* is not invoked (the plant is unchanged); an authenticated request always
\* reaches the handler, which waters the plant in the user's name.
C12_AuthGate ==
    [][resp'.op = "POST /api/plant/water" =>
          IF ~resp'.arg.authenticated
          THEN /\ resp'.status = 303
               /\ resp'.err = "/login"
               /\ plant' = plant
          ELSE /\ resp'.status = 200
               /\ plant' # <<>>
               /\ plant'[1].WateredBy = resp'.arg.user_email
               /\ plant'[1].LastWatered = <<now>>]_vars

\* an unauthenticated watering request was redirected while a plant watered
\* by somebody else was stored
C12_Witness ==
    /\ resp.op = "POST /api/plant/water"
    /\ resp.status = 303
    /\ ~resp.arg.authenticated
    /\ plant # <<>>
    /\ plant[1].WateredBy # ""

\* Real provider credentials: both the client id and the secret are set
Credentialed == env.GOOGLE_CLIENT_ID # "" /\ env.GOOGLE_CLIENT_SECRET # ""

\* C13: with real provider credentials configured the demo login answers 404
\* and create-demo-session returns the not-available error, and neither
\* creates a session; without credentials a demo session is created only for
\* an email is_user_allowed accepts, any other email fails with "user not in
\* allowlist" and no session.
C13_DemoLogin ==
    [][/\ resp'.op = "demo_login" =>
            /\ Credentialed =>
                  /\ resp'.status = 404
                  /\ cookie' = cookie
                  /\ users' = users
            /\ (~Credentialed /\ cookie' # cookie) =>
                  /\ cookie'.authenticated
                  /\ IsUserAllowed(cookie'.user_email)
            /\ (~Credentialed /\ resp'.arg.method = "POST" /\ resp'.arg.email # ""
                   /\ ~IsUserAllowed(resp'.arg.email)) =>
                  /\ resp'.status = 400
                  /\ resp'.err = "Failed to create demo session: user not in allowlist"
                  /\ cookie' = cookie
                  /\ users' = users
       /\ resp'.op = "create_demo_session" =>
            /\ Credentialed =>
                  /\ resp'.err = "demo sessions only available in demo mode"
                  /\ cookie' = cookie
                  /\ users' = users
            /\ (~Credentialed /\ ~IsUserAllowed(resp'.arg.email)) =>
                  /\ resp'.err = "user not in allowlist"
                  /\ cookie' = cookie
                  /\ users' = users
            /\ (~Credentialed /\ cookie' # cookie) =>
                  IsUserAllowed(cookie'.user_email)]_vars

\* with credentials configured a demo login posted for an allowed email was
\* answered 404 and left the browser without a session
C13_Witness ==
    /\ Credentialed
    /\ resp.op = "demo_login"
    /\ resp.status = 404
    /\ resp.arg.method = "POST"
    /\ resp.arg.email = TestEmail
    /\ ~cookie.authenticated

\* C14: after a logout no later request of that session is treated as
\* authenticated, whether it carries the cookie the logout answered with or
\* replays the cookie issued at login: the status request that follows a
\* logout reports authenticated = false.
C14_LogoutInvalidates ==
    [][(resp.op = "logout" /\ resp'.op = "GET /auth/status") =>
          ~resp'.out.authenticated]_vars

\* C15: whenever a Plant is stored, get_config() returns timeout_hours equal
\* to the stored Plant's timeout_hours (with no configuration stored before,
\* and after update_settings changed the plant's timeout).
C15_ConfigReflectsPlant ==
    (resp.op = "get_config" /\ plant # <<>>) =>
        resp.out[1].TimeoutHours = plant[1].TimeoutHours

\* C16: starting from an empty store, after any sequence of get_config,
\* update_timeout and add_user (no remove_user) every admin email of the
\* stored configuration is also an allowed email.
C16_AdminsAllowed ==
    config # <<>> => Range(config[1].AdminEmails) \subseteq Range(config[1].AllowedEmails)

\* The allowed emails before a call, none when no configuration is stored
AllowedBefore == IF config = <<>> THEN <<>> ELSE config[1].AllowedEmails

\* C17: add_user with the email normalized to trimmed lower case: an email
\* not yet allowed is appended exactly once and the call answers 201; an
\* email already allowed answers 409 and leaves the configuration as it was
\* (so adding the same email twice gives 201 then 409); a malformed email
\* (empty, or lacking "@" or ".") answers 400 and changes nothing.
C17_AddUser ==
    [][resp'.op = "add_user" =>
          LET email == ToLowerTrim(resp'.arg)
          IN /\ IF email \in {"", "bad", "guest.x.com", "guest@x"}
                THEN resp'.status = 400 /\ config' = config
                ELSE IF email \in Range(AllowedBefore)
                THEN resp'.status = 409 /\ config' = config
                ELSE /\ resp'.status = 201
                     /\ config' # <<>>
                     /\ config'[1].AllowedEmails = Append(AllowedBefore, email)
                     /\ Cardinality({i \in 1..Len(config'[1].AllowedEmails) :
                                        config'[1].AllowedEmails[i] = email}) = 1
             /\ (resp.op = "add_user" /\ resp.status = 201 /\ ToLowerTrim(resp.arg) = email)
                   => resp'.status = 409
             /\ plant' = plant]_vars

\* the email was added and then sent again in another spelling: 409, and it
\* is in the list once
C17_Witness ==
    /\ resp.op = "add_user"
    /\ resp.status = 409
    /\ resp.arg = " Guest@X.com "
    /\ config # <<>>
    /\ Cardinality({i \in 1..Len(config[1].AllowedEmails) :
                       config[1].AllowedEmails[i] = GuestEmail}) = 1

\* C18: remove_user of an email (normalized as add_user does) that is not
\* allowed, or with no configuration stored, answers 404 and changes nothing,
\* creating no configuration; of an allowed email, the email no longer occurs
\* afterwards, the other allowed emails keep their order, and admin_emails
\* and timeout_hours are unchanged.
C18_RemoveUser ==
    [][(resp'.op = "remove_user" /\ resp'.arg # "") =>
          LET email == ToLowerTrim(resp'.arg)
          IN IF email \notin Range(AllowedBefore)
             THEN resp'.status = 404 /\ config' = config /\ plant' = plant
             ELSE /\ resp'.status = 200
                  /\ email \notin Range(config'[1].AllowedEmails)
                  /\ config'[1].AllowedEmails =
                        SelectSeq(config[1].AllowedEmails, LAMBDA e : e # email)
                  /\ config'[1].AdminEmails = config[1].AdminEmails
                  /\ config'[1].TimeoutHours = config[1].TimeoutHours
                  /\ plant' = plant]_vars

\* an email from the middle of the list was removed, sent in another
\* spelling, and the emails around it are still there
C18_Witness ==
    /\ resp.op = "remove_user"
    /\ resp.status = 200
    /\ resp.arg = " Guest@X.com "
    /\ Len(config[1].AllowedEmails) >= 2
    /\ GuestEmail \notin Range(config[1].AllowedEmails)

\* C19: update_timeout(h) is accepted exactly for 1 <= h <= 168; any other
\* value answers 400 and changes neither the AdminConfig (no default
\* configuration is created) nor the Plant, although the plant's own ceiling
\* is 8760.
C19_UpdateTimeoutRange ==
    [][resp'.op = "update_timeout" =>
          IF resp'.arg >= 1 /\ resp'.arg <= 168
          THEN /\ resp'.status = 200
               /\ config' # <<>>
               /\ config'[1].TimeoutHours = resp'.arg
          ELSE /\ resp'.status = 400
               /\ config' = config
               /\ plant' = plant]_vars

\* 169 hours were refused on a store holding a plant and no configuration
C19_Witness ==
    /\ resp.op = "update_timeout"
    /\ resp.status = 400
    /\ resp.arg = 169
    /\ config = <<>>
    /\ plant # <<>>

\* C20: reset() keeps the plant's name and timeout_hours and leaves
\* last_watered absent and watered_by empty, so a reset of a plant that was
\* already reset changes none of the four (reset; reset equals reset); after
\* a reset the health status is critical and is_overdue is true.
C20_ResetIdempotent ==
    [][resp'.op = "reset" =>
          /\ resp'.err = ""
          /\ plant' # <<>>
          /\ resp'.out = plant'
          /\ plant'[1].LastWatered = <<>>
          /\ plant'[1].WateredBy = ""
          /\ plant'[1].Name = (IF plant = <<>> THEN "Our Plant" ELSE plant[1].Name)
          /\ plant'[1].TimeoutHours = (IF plant = <<>> THEN 24 ELSE plant[1].TimeoutHours)
          /\ (plant # <<>> /\ plant[1].LastWatered = <<>> /\ plant[1].WateredBy = "") =>
                /\ plant'[1].Name = plant[1].Name
                /\ plant'[1].TimeoutHours = plant[1].TimeoutHours
          /\ GetHealthStatus(plant'[1], now') = "critical"
          /\ IsOverdue(plant'[1], now')]_vars

\* a renamed plant with its own timeout was reset some time after it was
\* created
C20_Witness ==
    /\ resp.op = "reset"
    /\ plant # <<>>
    /\ plant[1].Name = "Fern"
    /\ plant[1].TimeoutHours = 2
    /\ plant[1].LastWatered = <<>>
    /\ plant[1].UpdatedAt > plant[1].CreatedAt

\* The reads of the plant service, by the op they record
ReadOps == {"get_plant", "get_status", "get_timer"}

\* C22: the plant is created once, lazily: the first read on an empty store
\* stores and returns the default plant (id 1, name "Our Plant", timeout 24,
\* never watered, watered_by empty), and in sequential execution no later
\* operation puts a fresh default in place of a stored plant (created_at
\* never changes once the plant exists).
C22_LazyCreation ==
    [][/\ (plant = <<>> /\ resp'.op \in ReadOps) =>
            /\ plant' = <<[ID |-> 1, Name |-> "Our Plant", LastWatered |-> <<>>,
                           TimeoutHours |-> 24, WateredBy |-> "",
                           CreatedAt |-> now, UpdatedAt |-> now]>>
            /\ (resp'.op = "get_plant" => resp'.out = plant')
       /\ plant # <<>> =>
            /\ plant' # <<>>
            /\ plant'[1].ID = plant[1].ID
            /\ plant'[1].CreatedAt = plant[1].CreatedAt]_vars

\* a first read some time after start-up has just stored the default plant
C22_Witness ==
    /\ resp.op = "get_plant"
    /\ now > 0
    /\ plant # <<>>
    /\ plant[1].CreatedAt = now
    /\ plant[1].LastWatered = <<>>
    /\ resp.out = plant

\* C23: whenever update_settings returns an error (a negative timeout with
\* any name, or a timeout above 8760) the stored plant's name, timeout_hours
\* and updated_at are the same after the call as before it.
C23_FailedUpdateUnchanged ==
    [][(resp'.op = "update_settings" /\ resp'.err # "" /\ plant # <<>>) =>
          /\ plant'[1].Name = plant[1].Name
          /\ plant'[1].TimeoutHours = plant[1].TimeoutHours
          /\ plant'[1].UpdatedAt = plant[1].UpdatedAt]_vars

\* C26: every watering request that auth-required lets through is made with
\* a session whose email satisfies is_user_allowed at the time of the
\* request; in particular, once remove_user(e) has succeeded for an email e
\* outside the static set, no later watering by a session of e is accepted.
C26_AccessFollowsAllowlist ==
    [][(resp'.op = "POST /api/plant/water" /\ resp'.status = 200) =>
          IsUserAllowed(resp'.arg.user_email)]_vars

\* C28: the derived indicators of one plant at one instant agree: is_overdue
\* is true exactly when health_status is critical, and for a watered plant
\* exactly when time_until_due <= 0; time_until_due is absent exactly when
\* the plant was never watered.
C28_IndicatorsAgree ==
    resp.op = "get_status" =>
        /\ resp.out.IsOverdue <=> (resp.out.Status = "critical")
        /\ plant[1].LastWatered # <<>> =>
              (resp.out.IsOverdue <=> (resp.out.TimeUntilDue[1] <= 0))
        /\ (resp.out.TimeUntilDue = <<>>) <=> (plant[1].LastWatered = <<>>)

\* C30: get_status() and get_timer() on a store that holds a plant leave the
\* plant record (name, timeout_hours, last_watered, watered_by, created_at,
\* updated_at), the AdminConfig and the users as they were.
C30_ReadsDoNotMutate ==
    [][(resp'.op \in {"get_status", "get_timer"} /\ plant # <<>>) =>
          /\ plant' = plant
          /\ config' = config
          /\ users' = users]_vars

\* the timer of a watered plant was read some time after the watering, next
\* to a stored configuration
C30_Witness ==
    /\ resp.op = "get_timer"
    /\ plant # <<>>
    /\ plant[1].LastWatered # <<>>
    /\ plant[1].UpdatedAt < now
    /\ config # <<>>

\* C29: stats() is a total read: in every reachable state, a fresh store
\* with no AdminConfig and no Plant included, it returns the counts (allowed
\* users, admins, timeout) without failing.
C29_StatsTotal ==
    resp.op = "stats" => (resp.status = 200 /\ resp.err = "")

\* The step was a login that succeeded
LoginSucceeded ==
    \/ resp'.op = "callback" /\ resp'.status = 303
    \/ resp'.op = "demo_login" /\ resp'.status = 303
    \/ resp'.op = "demo_login" /\ resp'.status = 200 /\ resp'.arg.method = "GET"
          /\ resp'.arg.simple
    \/ resp'.op = "create_demo_session" /\ resp'.err = ""

\* C27: the admin flag of a session is never taken from the client: after
\* every successful login (OAuth callback, demo login with or without
\* admin=true) the session's is_admin equals is_user_admin(email) evaluated
\* at login, so a demo login with admin=true for an email that is no admin
\* gives a non-admin session, which admin-required rejects.
C27_AdminFlagFromServer ==
    [][/\ LoginSucceeded =>
            /\ cookie'.authenticated
            /\ cookie'.is_admin = IsUserAdmin(cookie'.user_email)
            /\ users'[cookie'.user_email] # <<>>
            /\ users'[cookie'.user_email][1].IsAdmin = IsUserAdmin(cookie'.user_email)
       /\ (resp'.op = "demo_login" /\ resp'.status = 303 /\ resp'.arg.admin
              /\ ~IsUserAdmin(resp'.arg.email)) =>
            /\ cookie'.user_email = resp'.arg.email
            /\ ~cookie'.is_admin
       /\ (resp.op = "demo_login" /\ resp.status = 303 /\ resp.arg.admin
              /\ ~IsUserAdmin(resp.arg.email)
              /\ resp'.op \in AdminHandlerOps \cup {"AdminRequired"}) =>
            /\ resp'.op = "AdminRequired"
            /\ resp'.status = 403]_vars

\* a demo login posted with admin=true for an email that is no admin went
\* through and the session is not an administrator's
C27_Witness ==
    /\ resp.op = "demo_login"
    /\ resp.status = 303
    /\ resp.arg.admin
    /\ resp.arg.email = TestEmail
    /\ cookie.authenticated
    /\ cookie.user_email = TestEmail
    /\ ~cookie.is_admin

\* The name the identity of a successful login carried
LoginName ==
    IF resp'.op = "callback" THEN resp'.arg.exchange[1].Name
    ELSE IF resp'.op = "create_demo_session" THEN resp'.arg.name
    ELSE IF resp'.arg.method = "GET" \/ resp'.arg.name = "" THEN "Demo User"
    ELSE resp'.arg.name

\* C21: create_session is an upsert that keeps joined_at: after every
\* successful login of an email the stored User has the joined_at written by
\* that email's first login, the name and is_admin of this (the latest)
\* login, and the users map holds one record for the email, the records of
\* the other emails being untouched.
C21_UpsertKeepsJoinedAt ==
    [][LoginSucceeded =>
          LET e == cookie'.user_email
          IN /\ users'[e] # <<>>
             /\ users'[e][1].Email = e
             /\ users'[e][1].JoinedAt = (IF users[e] # <<>> THEN users[e][1].JoinedAt ELSE now)
             /\ users'[e][1].Name = LoginName
             /\ users'[e][1].IsAdmin = IsUserAdmin(e)
             /\ \A o \in UserEmails \ {e} : users'[o] = users[o]]_vars

\* a user who joined earlier has just logged in again under another name
C21_Witness ==
    /\ resp.op = "demo_login"
    /\ resp.status = 303
    /\ resp.arg.email = TestEmail
    /\ resp.arg.name = "Ann"
    /\ users[TestEmail] # <<>>
    /\ users[TestEmail][1].JoinedAt < now
    /\ users[TestEmail][1].Name = "Ann"
    /\ users[AdminEmail] # <<>>

\* The concurrent waterings that have returned
WateringsDone == { p \in Procs : calls[p].op = "water" /\ calls[p].pc = "done" }

\* No call is in flight
Quiescent == \A p \in Procs : calls[p].pc \in {"idle", "done"}

\* C24: concurrent waterings are last-write-wins without torn state: once
\* two concurrent calls water(a) and water(b), a # b, have both returned, the
\* stored plant's (last_watered, watered_by) is the pair one single call
\* wrote, never last_watered of one call with watered_by of the other.
C24_NoTornWatering ==
    (/\ Quiescent
     /\ WateringsDone = Procs
     /\ \A p, q \in Procs : p # q => calls[p].actor # calls[q].actor) =>
        \E p \in Procs :
            /\ plant # <<>>
            /\ plant[1].LastWatered = <<calls[p].t>>
            /\ plant[1].WateredBy = calls[p].actor

\* C25: a successful watering is never lost to lazy creation: once
\* water(actor) has returned success, with no reset and no other watering,
\* a get_plant made from then on reports last_watered present and watered_by
\* = actor, however the watering interleaved with first-time reads that
\* create the default plant.
C25_WateringNotLost ==
    \A w \in WateringsDone :
        (\A q \in Procs \ {w} : calls[q].op # "water") =>
            /\ GetPlant.out[1].LastWatered # <<>>
            /\ GetPlant.out[1].WateredBy = calls[w].actor

====
